---- MODULE Spec2Model ----
(***************************************************************************)
(* Wine cellar reconciliation: a model of wine_comparison_backend.py (the  *)
(* production engine) and of app.py (the earlier /compare engine).         *)
(*                                                                         *)
(* A Python string is a sequence of characters; a character is a one-name  *)
(* TLA+ string ("a", "A", "e_acute" for U+00E9, "comb_acute" for U+0301).  *)
(* None is the tuple <<"None">>, which no character sequence of the model  *)
(* equals.                                                                 *)
(***************************************************************************)
EXTENDS Integers, Sequences, FiniteSets, TLC

VARIABLES
  pc,              \* where the modelled call stands
  arg, ret, ret2,  \* argument and results of a function applied on its own
  ld_raw, gs_raw,  \* the two loaded sheets: sequences of rows of cells
  livredecave_df,  \* the cellar records (process_livredecave's result)
  googlesheet_df,  \* the reference records (process_googlesheet's result)
  score,           \* the similarity of each pair of distinct normalized names
  gs_lwin16_set,   \* fuzzy_match_wines: the reference exact keys
  idx,             \* fuzzy_match_wines: the number of cellar rows iterated
  missing_wines,   \* fuzzy_match_wines: the result list
  decisions,       \* the locals (matched, match_type, best match) of each iteration
  google_xlsx,     \* app.py: the rows read from the uploaded reference sheet
  cave_xlsx,       \* app.py: the rows read from the uploaded cellar sheet
  google_df,       \* app.py: the reference frame with its added columns
  cave_df,         \* app.py: the cellar frame with its added columns
  cave_idx,        \* app.py: the number of cellar rows iterated
  app_missing_wines, \* app.py: the missing_wines list of compare_files
  app_decisions,   \* app.py: is_missing, match_method, matched_wine per iteration
  files,           \* app.py: the content of the three files of the server's disk
  requests         \* app.py: each client's request: its position and what it read

vars == <<pc, arg, ret, ret2, ld_raw, gs_raw, livredecave_df, googlesheet_df,
          score, gs_lwin16_set, idx, missing_wines, decisions,
          google_xlsx, cave_xlsx, google_df, cave_df, cave_idx,
          app_missing_wines, app_decisions, files, requests>>

appVars == <<google_xlsx, cave_xlsx, google_df, cave_df, cave_idx,
             app_missing_wines, app_decisions, files, requests>>

pureVars == <<arg, ret, ret2>>
engineVars == <<ld_raw, gs_raw, livredecave_df, googlesheet_df, score,
                gs_lwin16_set, idx, missing_wines, decisions>>

\* app.py's variables in a specification of the other file
AppIdle ==
  /\ google_xlsx = <<>> /\ cave_xlsx = <<>>
  /\ google_df = <<>> /\ cave_df = <<>>
  /\ cave_idx = 0 /\ app_missing_wines = <<>> /\ app_decisions = <<>>
  /\ files = <<>> /\ requests = <<>>

\* the engine's variables in a specification that applies one function
EngineIdle ==
  /\ ld_raw = <<>> /\ gs_raw = <<>>
  /\ livredecave_df = <<>> /\ googlesheet_df = <<>>
  /\ score = <<>> /\ gs_lwin16_set = {}
  /\ idx = 0 /\ missing_wines = <<>> /\ decisions = <<>>

None == <<"None">>

\* a missing cell of a loaded sheet (pandas NaN)
NaN == <<"NaN">>

(***************************************************************************)
(* Characters                                                              *)
(***************************************************************************)
LowerLetters ==
  {"a","b","c","d","e","f","g","h","i","j","k","l","m",
   "n","o","p","q","r","s","t","u","v","w","x","y","z"}

Digits == {"0","1","2","3","4","5","6","7","8","9"}

\* characters str.isspace() and the regex class \s accept
Whitespace == {" ", "tab"}

\* combining marks: unicodedata.category(c) = 'Mn'
CombiningMarks == {"comb_acute", "comb_grave", "comb_circ"}

\* str.lower() on one character
LowerChar(c) ==
  CASE c = "A" -> "a" [] c = "B" -> "b" [] c = "C" -> "c" [] c = "D" -> "d"
    [] c = "E" -> "e" [] c = "F" -> "f" [] c = "G" -> "g" [] c = "H" -> "h"
    [] c = "I" -> "i" [] c = "J" -> "j" [] c = "K" -> "k" [] c = "L" -> "l"
    [] c = "M" -> "m" [] c = "N" -> "n" [] c = "O" -> "o" [] c = "P" -> "p"
    [] c = "Q" -> "q" [] c = "R" -> "r" [] c = "S" -> "s" [] c = "T" -> "t"
    [] c = "U" -> "u" [] c = "V" -> "v" [] c = "W" -> "w" [] c = "X" -> "x"
    [] c = "Y" -> "y" [] c = "Z" -> "z"
    [] c = "E_ACUTE" -> "e_acute" [] c = "E_GRAVE" -> "e_grave"
    [] c = "I_CIRC" -> "i_circ" [] c = "A_CIRC" -> "a_circ"
    [] OTHER -> c

\* unicodedata.normalize('NFD', c) on one character
DecomposeChar(c) ==
  CASE c = "e_acute" -> <<"e", "comb_acute">>
    [] c = "E_ACUTE" -> <<"E", "comb_acute">>
    [] c = "e_grave" -> <<"e", "comb_grave">>
    [] c = "E_GRAVE" -> <<"E", "comb_grave">>
    [] c = "i_circ"  -> <<"i", "comb_circ">>
    [] c = "I_CIRC"  -> <<"I", "comb_circ">>
    [] c = "a_circ"  -> <<"a", "comb_circ">>
    [] c = "A_CIRC"  -> <<"A", "comb_circ">>
    [] OTHER -> <<c>>

(***************************************************************************)
(* String helpers (Python str methods and the re calls of the source)      *)
(***************************************************************************)
\* s.lower()
Lower(s) == [k \in 1..Len(s) |-> LowerChar(s[k])]

\* unicodedata.normalize('NFD', s)
RECURSIVE NFD(_)
NFD(s) == IF s = <<>> THEN <<>> ELSE DecomposeChar(Head(s)) \o NFD(Tail(s))

\* ''.join(char for char in s if unicodedata.category(char) != 'Mn')
StripMarks(s) == SelectSeq(s, LAMBDA c : c \notin CombiningMarks)

\* re.sub(r'[^a-z0-9\s]', ' ', s)
SubNonAlnum(s) ==
  [k \in 1..Len(s) |->
     IF s[k] \in LowerLetters \cup Digits \cup Whitespace THEN s[k] ELSE " "]

\* s.split(): the maximal runs of non-whitespace characters, in order
RECURSIVE SplitAcc(_, _, _)
SplitAcc(s, cur, acc) ==
  IF s = <<>> THEN (IF cur = <<>> THEN acc ELSE Append(acc, cur))
  ELSE IF Head(s) \in Whitespace
       THEN SplitAcc(Tail(s), <<>>, IF cur = <<>> THEN acc ELSE Append(acc, cur))
       ELSE SplitAcc(Tail(s), Append(cur, Head(s)), acc)

Split(s) == SplitAcc(s, <<>>, <<>>)

\* ' '.join(parts)
RECURSIVE JoinSpace(_)
JoinSpace(parts) ==
  IF parts = <<>> THEN <<>>
  ELSE IF Len(parts) = 1 THEN parts[1]
  ELSE parts[1] \o <<" ">> \o JoinSpace(Tail(parts))

\* s.strip()
RECURSIVE LStrip(_)
LStrip(s) ==
  IF s # <<>> /\ Head(s) \in Whitespace THEN LStrip(Tail(s)) ELSE s

RECURSIVE RStrip(_)
RStrip(s) ==
  IF s # <<>> /\ s[Len(s)] \in Whitespace
  THEN RStrip(SubSeq(s, 1, Len(s) - 1)) ELSE s

Strip(s) == RStrip(LStrip(s))

\* sub in s
Contains(sub, s) ==
  \E k \in 0..(Len(s) - Len(sub)) : SubSeq(s, k + 1, k + Len(sub)) = sub

(***************************************************************************)
(* normalize_string                                                        *)
(***************************************************************************)
\* the steps in a wrong order: whitespace is collapsed before the special
\* characters are turned into spaces
normalize_string_late_sub(s) ==
  IF s = <<>> THEN <<>>
  ELSE SubNonAlnum(JoinSpace(Split(Lower(StripMarks(NFD(s))))))

normalize_string(s) ==
  IF s = <<>> THEN <<>>
  ELSE JoinSpace(Split(SubNonAlnum(Lower(StripMarks(NFD(s))))))

(***************************************************************************)
(* Accessory filter                                                        *)
(***************************************************************************)
ACCESSORY_KEYWORDS ==
  {
   <<"c","a","i","s","s","e">>,
   <<"c","a","r","t","o","n">>,
   <<"c","o","f","f","r","e","t">>,
   <<"b","o","x">>,
   <<"e_acute","t","u","i">>,
   <<"e","m","b","a","l","l","a","g","e">>,
   <<"t","i","r","e","-","b","o","u","c","h","o","n">>,
   <<"d","e_acute","c","a","n","t","e","u","r">>,
   <<"v","e","r","r","e">>,
   <<"f","l","u","t","e">>,
   <<"c","o","u","p","e">>,
   <<"s","e","a","u">>,
   <<"r","a","f","r","a","i_circ","c","h","i","s","s","e","u","r">>,
   <<"t","h","e","r","m","o","m","e_grave","t","r","e">>,
   <<"b","o","u","c","h","o","n">>,
   <<"c","a","p","s","u","l","e">>,
   <<"c","a","t","a","l","o","g","u","e">>,
   <<"l","i","v","r","e">>,
   <<"b","o","o","k">>,
   <<"p","o","s","t","e","r">>,
   <<"a","f","f","i","c","h","e">>,
   <<"g","i","f","t">>,
   <<"c","a","d","e","a","u">>,
   <<"a","c","c","e","s","s","o","i","r","e">>,
   <<"o","u","t","i","l">>,
   <<"s","u","p","p","o","r","t">>
  }

\* the test is case-sensitive: the name is not lowered
is_accessory_case_sensitive(wine_name) ==
  IF wine_name = NaN THEN FALSE
  ELSE \E keyword \in ACCESSORY_KEYWORDS : Contains(keyword, wine_name)

is_accessory(wine_name) ==
  IF wine_name = NaN THEN FALSE
  ELSE \E keyword \in ACCESSORY_KEYWORDS : Contains(keyword, Lower(wine_name))

(***************************************************************************)
(* Numbers in strings                                                      *)
(***************************************************************************)
DigitVal(c) ==
  CASE c = "0" -> 0 [] c = "1" -> 1 [] c = "2" -> 2 [] c = "3" -> 3
    [] c = "4" -> 4 [] c = "5" -> 5 [] c = "6" -> 6 [] c = "7" -> 7
    [] c = "8" -> 8 [] c = "9" -> 9

DigitChar(d) ==
  CASE d = 0 -> "0" [] d = 1 -> "1" [] d = 2 -> "2" [] d = 3 -> "3"
    [] d = 4 -> "4" [] d = 5 -> "5" [] d = 6 -> "6" [] d = 7 -> "7"
    [] d = 8 -> "8" [] d = 9 -> "9"

\* int(s) for a sequence of digits
RECURSIVE StrToNat(_)
StrToNat(s) ==
  IF s = <<>> THEN 0
  ELSE StrToNat(SubSeq(s, 1, Len(s) - 1)) * 10 + DigitVal(s[Len(s)])

\* str(n) for n >= 0
RECURSIVE IntToStr(_)
IntToStr(n) ==
  IF n < 10 THEN <<DigitChar(n)>>
  ELSE Append(IntToStr(n \div 10), DigitChar(n % 10))

\* s.zfill(width) for a string without sign
zfill(s, width) ==
  IF Len(s) >= width THEN s ELSE [k \in 1..(width - Len(s)) |-> "0"] \o s

RECURSIVE Pow10(_)
Pow10(n) == IF n = 0 THEN 1 ELSE 10 * Pow10(n - 1)

\* the length of the run of digits of s that starts at position k
RECURSIVE DigitRunLen(_, _)
DigitRunLen(s, k) ==
  IF k > Len(s) \/ s[k] \notin Digits THEN 0 ELSE 1 + DigitRunLen(s, k + 1)

\* the position of the first digit of s, 0 when it has none
FirstDigitPos(s) ==
  IF \E k \in 1..Len(s) : s[k] \in Digits
  THEN CHOOSE k \in 1..Len(s) :
         s[k] \in Digits /\ \A j \in 1..(k - 1) : s[j] \notin Digits
  ELSE 0

\* re.sub(r'\D', '', s)
OnlyDigits(s) == SelectSeq(s, LAMBDA c : c \in Digits)

\* The products x * 100 (x a decimal of at most 5 digits over 0, 1, 5, 7, the
\* digits of the model's size values) that are whole numbers and that IEEE-754
\* double multiplication returns just below, so that int() truncates them to
\* one less.
RoundsBelow ==
  {
     57, 115, 510, 1715, 7007, 7010, 7057, 7071, 7107, 7110,
     7157, 7171, 7507, 7510, 7557, 7571, 7707, 7710, 7757, 7771,
     15017, 15070, 15117, 15170, 15517, 15570, 15717, 15770, 51505, 51517,
     51555, 51705, 51717, 51755, 55005, 55017, 55055, 55105, 55117, 55155,
     55505, 55517, 55555, 55705, 55717, 55755, 57005, 57017, 57055, 57105,
     57117, 57155, 57505, 57517, 57555, 57705, 57717, 57755, 105010, 105110,
     105510, 105710, 107010, 107110, 107510, 107710, 110010, 110110, 110510, 110710,
     111010, 111110, 111510, 111710, 115010, 115110, 115510, 115710, 117010, 117110,
     117510, 117710
  }

\* int(number * 100) for number = ip + fp / 10^flen as a Python float
FloatMul100Trunc(ip, fp, flen) ==
  LET n == (ip * Pow10(flen) + fp) * 100
      q == n \div Pow10(flen)
  IN IF n % Pow10(flen) = 0 /\ q \in RoundsBelow THEN q - 1 ELSE q

(***************************************************************************)
(* Key builder: normalize_vintage, normalize_size, extract_lwin7,          *)
(* create_lwin16 (wine_comparison_backend.py)                              *)
(***************************************************************************)
UpperLetters ==
  {"A","B","C","D","E","F","G","H","I","J","K","L","M",
   "N","O","P","Q","R","S","T","U","V","W","X","Y","Z"}

AccentedLetters ==
  {"e_acute", "E_ACUTE", "e_grave", "E_GRAVE", "i_circ", "I_CIRC",
   "a_circ", "A_CIRC"}

\* the regex class \w
WordChars == LowerLetters \cup UpperLetters \cup AccentedLetters \cup Digits \cup {"_"}

\* s.split('-')[0]
BeforeDash(s) ==
  IF \E k \in 1..Len(s) : s[k] = "-"
  THEN SubSeq(s, 1, (CHOOSE k \in 1..Len(s) :
                       s[k] = "-" /\ \A j \in 1..(k - 1) : s[j] # "-") - 1)
  ELSE s

\* the positions where \b(19\d{2}|20\d{2})\b matches in s
YearMatches(s) ==
  {k \in 1..(Len(s) - 3) :
     /\ \/ (s[k] = "1" /\ s[k + 1] = "9")
        \/ (s[k] = "2" /\ s[k + 1] = "0")
     /\ s[k + 2] \in Digits
     /\ s[k + 3] \in Digits
     /\ (k = 1 \/ s[k - 1] \notin WordChars)
     /\ (k + 3 = Len(s) \/ s[k + 4] \notin WordChars)}

\* float(s), for strings without exponent and without underscore (neither
\* "e", "E" nor "_" belongs to the vintage alphabets of the model). The
\* result: kind "num" with the integer part of the value and its sign,
\* its fraction digits fp (flen of them), "inf", "nan", or "error"
\* (ValueError).
ParseFloat(s0) ==
  LET s == Strip(s0)
      signed == s # <<>> /\ s[1] \in {"+", "-"}
      neg == s # <<>> /\ s[1] = "-"
      body == IF signed THEN Tail(s) ELSE s
      word == Lower(body)
      ilen == DigitRunLen(body, 1)
      dot == ilen + 1 <= Len(body) /\ body[ilen + 1] = "."
      flen == IF dot THEN DigitRunLen(body, ilen + 2) ELSE 0
      used == ilen + (IF dot THEN 1 + flen ELSE 0)
  IN IF word \in {<<"i","n","f">>, <<"i","n","f","i","n","i","t","y">>}
     THEN [kind |-> "inf", neg |-> neg, ip |-> 0, fp |-> 0, flen |-> 0]
     ELSE IF word = <<"n","a","n">>
     THEN [kind |-> "nan", neg |-> neg, ip |-> 0, fp |-> 0, flen |-> 0]
     ELSE IF ilen + flen > 0 /\ used = Len(body)
     THEN [kind |-> "num", neg |-> neg,
           ip |-> StrToNat(SubSeq(body, 1, ilen)),
           fp |-> StrToNat(SubSeq(body, ilen + 2, ilen + 1 + flen)),
           flen |-> flen]
     ELSE [kind |-> "error", neg |-> neg, ip |-> 0, fp |-> 0, flen |-> 0]

\* normalize_vintage: what the call does ("return" a value, or "raise" an
\* exception its except clause does not catch) and the value returned
VintageCall(vintage) ==
  IF vintage = NaN \/ vintage = <<>> \/ vintage = <<"N", "V">>
  THEN [outcome |-> "return", value |-> 1000]
  ELSE LET vintage_str == BeforeDash(Strip(vintage))
           ms == YearMatches(vintage_str)
           f == ParseFloat(vintage_str)
       IN IF ms # {}
          THEN LET k == CHOOSE m \in ms : \A o \in ms : m <= o
               IN [outcome |-> "return",
                   value |-> StrToNat(SubSeq(vintage_str, k, k + 3))]
          ELSE IF f.kind \in {"error", "nan"}   \* ValueError, caught
          THEN [outcome |-> "return", value |-> 1000]
          ELSE IF f.kind = "inf"                \* int(inf): OverflowError
          THEN [outcome |-> "raise", value |-> 0]
          ELSE IF ~f.neg /\ 1900 <= f.ip /\ f.ip <= 2030
          THEN [outcome |-> "return", value |-> f.ip]
          ELSE [outcome |-> "return", value |-> 1000]

normalize_vintage(vintage) == VintageCall(vintage).value

normalize_vintage_raises(vintage) == VintageCall(vintage).outcome = "raise"

normalize_size(size, unit) ==
  IF size = NaN \/ size = <<>> THEN 75
  ELSE LET size_str == Strip(Lower(size))
           p == FirstDigitPos(size_str)
           ilen == DigitRunLen(size_str, p)
           q == p + ilen
           frac == /\ q + 1 <= Len(size_str)
                   /\ size_str[q] \in {".", ","}
                   /\ size_str[q + 1] \in Digits
           flen == IF frac THEN DigitRunLen(size_str, q + 1) ELSE 0
           ip == StrToNat(SubSeq(size_str, p, q - 1))
           fp == StrToNat(SubSeq(size_str, q + 1, q + flen))
       IN IF p = 0 THEN 75
          ELSE IF \/ unit = "L"
                  \/ Contains(<<"l">>, size_str)
                  \/ Contains(<<"l","i","t","r","e">>, size_str)
          THEN FloatMul100Trunc(ip, fp, flen)
          ELSE IF Contains(<<"m","l">>, size_str)
          THEN ip \div 10
          ELSE ip

\* re.sub(r'^LWIN', '', s, flags=re.IGNORECASE)
DropLwinPrefix(s) ==
  IF Len(s) >= 4 /\ Lower(SubSeq(s, 1, 4)) = <<"l","w","i","n">>
  THEN SubSeq(s, 5, Len(s)) ELSE s

extract_lwin7(lwin_str) ==
  IF lwin_str = NaN \/ lwin_str = <<>> THEN None
  ELSE LET s == DropLwinPrefix(Strip(lwin_str))
           runs == {k \in 1..(Len(s) - 6) : \A j \in k..(k + 6) : s[j] \in Digits}
           digits == OnlyDigits(s)
       IN IF runs # {}
          THEN LET k == CHOOSE m \in runs : \A o \in runs : m <= o
               IN SubSeq(s, k, k + 6)
          ELSE IF digits # <<>> /\ Len(digits) <= 7
          THEN zfill(digits, 7)
          ELSE None

\* the volume cut to its first 5 characters, so that the key has 16
create_lwin16_truncated(lwin7, vintage, size_cl) ==
  IF lwin7 = None \/ lwin7 = <<>> THEN None
  ELSE lwin7 \o zfill(IntToStr(vintage), 4)
             \o SubSeq(zfill(IntToStr(size_cl), 5), 1, 5)

\* the padding widths exchanged: the vintage padded to 5, the volume to 4
create_lwin16_swapped_widths(lwin7, vintage, size_cl) ==
  IF lwin7 = None \/ lwin7 = <<>> THEN None
  ELSE lwin7 \o zfill(IntToStr(vintage), 5) \o zfill(IntToStr(size_cl), 4)

create_lwin16(lwin7, vintage, size_cl) ==
  IF lwin7 = None \/ lwin7 = <<>> THEN None
  ELSE lwin7 \o zfill(IntToStr(vintage), 4) \o zfill(IntToStr(size_cl), 5)

(***************************************************************************)
(* Record projector: process_livredecave, process_googlesheet              *)
(***************************************************************************)
\* row.iloc[i]: the cells of a row are numbered from 0
Cell(row, i) == row[i + 1]

\* row.iloc[i] if len(row) > i else ''
CellOrEmpty(row, i) == IF Len(row) > i THEN Cell(row, i) ELSE <<>>

\* process_livredecave: the stripped non-empty cells among the columns cols
RECURSIVE wine_parts(_, _)
wine_parts(row, cols) ==
  IF cols = <<>> THEN <<>>
  ELSE LET col_idx == Head(cols)
           rest == wine_parts(row, Tail(cols))
       IN IF /\ col_idx < Len(row)
             /\ Cell(row, col_idx) # NaN
             /\ Strip(Cell(row, col_idx)) # <<>>
          THEN <<Strip(Cell(row, col_idx))>> \o rest
          ELSE rest

\* columns C, E, F, G
ld_wine_name(row) == JoinSpace(wine_parts(row, <<2, 4, 5, 6>>))

\* column A
gs_wine_name(row) ==
  IF Len(row) > 0 /\ Cell(row, 0) # NaN THEN Strip(Cell(row, 0)) ELSE <<>>

\* what the loop body does with a row, given its wine name and vintage cell:
\* "empty" and "accessory" (continue), "error" (an exception, logged, then
\* continue) or "record" (a record is appended)
RowOutcome(wine_name, vintage_cell) ==
  IF wine_name = <<>> THEN "empty"
  ELSE IF is_accessory(wine_name) THEN "accessory"
  ELSE IF normalize_vintage_raises(vintage_cell) THEN "error"
  ELSE "record"

ld_outcome(row) == RowOutcome(ld_wine_name(row), CellOrEmpty(row, 7))

gs_outcome(row) == RowOutcome(gs_wine_name(row), CellOrEmpty(row, 2))

\* the record process_livredecave appends for the row at position k (1-based)
ld_record(row, k) ==
  LET wine_name == ld_wine_name(row)
      vintage == normalize_vintage(CellOrEmpty(row, 7))
      size_cl == normalize_size(CellOrEmpty(row, 8), "L")
      lwin7 == extract_lwin7(CellOrEmpty(row, 10))
  IN [original_row |-> k + 1,
      wine |-> wine_name,
      wine_normalized |-> normalize_string(wine_name),
      vintage |-> vintage,
      contenance_cl |-> size_cl,
      lwin7 |-> lwin7,
      lwin16 |-> IF lwin7 # None THEN create_lwin16(lwin7, vintage, size_cl)
                 ELSE None]

\* the record process_googlesheet appends for a row (it has no original_row;
\* the model keeps the field, always 0, so that both frames hold one record
\* shape)
gs_record(row) ==
  LET wine_name == gs_wine_name(row)
      vintage == normalize_vintage(CellOrEmpty(row, 2))
      size_cl == normalize_size(CellOrEmpty(row, 3), "cl")
      lwin7 == extract_lwin7(CellOrEmpty(row, 6))
  IN [original_row |-> 0,
      wine |-> wine_name,
      wine_normalized |-> normalize_string(wine_name),
      vintage |-> vintage,
      contenance_cl |-> size_cl,
      lwin7 |-> lwin7,
      lwin16 |-> IF lwin7 # None THEN create_lwin16(lwin7, vintage, size_cl)
                 ELSE None]

RECURSIVE ld_rows_from(_, _)
ld_rows_from(df, k) ==
  IF k > Len(df) THEN <<>>
  ELSE (IF ld_outcome(df[k]) = "record" THEN <<ld_record(df[k], k)>> ELSE <<>>)
       \o ld_rows_from(df, k + 1)

\* the accessory test left out of the loop body
process_livredecave_keeps_accessories(df) ==
  LET keep(k) == /\ ld_wine_name(df[k]) # <<>>
                 /\ ~normalize_vintage_raises(CellOrEmpty(df[k], 7))
      RECURSIVE from(_)
      from(k) == IF k > Len(df) THEN <<>>
                 ELSE (IF keep(k) THEN <<ld_record(df[k], k)>> ELSE <<>>)
                      \o from(k + 1)
  IN from(1)

process_livredecave(df) == ld_rows_from(df, 1)

RECURSIVE process_googlesheet(_)
process_googlesheet(df) ==
  IF df = <<>> THEN <<>>
  ELSE (IF gs_outcome(Head(df)) = "record" THEN <<gs_record(Head(df))>> ELSE <<>>)
       \o process_googlesheet(Tail(df))

(***************************************************************************)
(* Reconciliation engine: fuzzy_match_wines                                *)
(***************************************************************************)
\* max(fuzz.ratio, fuzz.partial_ratio, fuzz.token_sort_ratio) of two
\* normalized names. fuzzywuzzy is a library: the model knows of it that an
\* empty string scores 0 and equal strings score 100, and takes the score of
\* every other pair from the variable score.
fuzz_score(a, b) ==
  IF a = <<>> \/ b = <<>> THEN 0
  ELSE IF a = b THEN 100
  ELSE score[<<a, b>>]

threshold == 70

\* a candidate of equal score replaces the one retained: the last of the
\* candidates of maximal score is kept
RECURSIVE best_match_from_keeps_last(_, _, _, _)
best_match_from_keeps_last(ld_row, gs_df, k, best) ==
  IF k > Len(gs_df) THEN best
  ELSE LET s == fuzz_score(ld_row.wine_normalized, gs_df[k].wine_normalized)
       IN best_match_from_keeps_last(ld_row, gs_df, k + 1,
            IF s >= best.best_score /\ s > 0
            THEN [best_score |-> s, best_match_idx |-> k]
            ELSE best)

\* the scan of the reference rows from position k on; best holds best_score
\* and best_match_idx (0: best_match is None)
RECURSIVE best_match_from(_, _, _, _)
best_match_from(ld_row, gs_df, k, best) ==
  IF k > Len(gs_df) THEN best
  ELSE LET s == fuzz_score(ld_row.wine_normalized, gs_df[k].wine_normalized)
       IN best_match_from(ld_row, gs_df, k + 1,
            IF s > best.best_score
            THEN [best_score |-> s, best_match_idx |-> k]
            ELSE best)

best_match_of(ld_row, gs_df) ==
  best_match_from(ld_row, gs_df, 1, [best_score |-> 0, best_match_idx |-> 0])

\* the sentinel is not accepted: only equal vintages match
vintage_match_equal_only(ld_row, best_match) ==
  ld_row.vintage = best_match.vintage

\* every pair of vintages is accepted
vintage_match_always(ld_row, best_match) == TRUE

vintage_match(ld_row, best_match) ==
  \/ ld_row.vintage = best_match.vintage
  \/ ld_row.vintage = 1000
  \/ best_match.vintage = 1000

Abs(n) == IF n < 0 THEN -n ELSE n

size_match(ld_row, best_match) ==
  \/ Abs(ld_row.contenance_cl - best_match.contenance_cl) <= 10
  \/ (ld_row.contenance_cl = 75 /\ best_match.contenance_cl = 75)

NoPair == <<>>

\* the reason "Fuzzy match trouve (best_score%) mais ..." with the part
\* "millesime different (a vs b)" and the part "contenance differente
\* (a cl vs b cl)"; a part left out is NoPair
rejected_reason(ld_row, best_match, best_score) ==
  [kind |-> "rejected", score |-> best_score,
   vintage |-> IF ~vintage_match(ld_row, best_match)
               THEN <<ld_row.vintage, best_match.vintage>> ELSE NoPair,
   size |-> IF ~size_match(ld_row, best_match)
            THEN <<ld_row.contenance_cl, best_match.contenance_cl>> ELSE NoPair]

\* "Pas de correspondance fuzzy suffisante (meilleur score: best_score%)"
insufficient_reason(best_score) ==
  [kind |-> "insufficient", score |-> best_score, vintage |-> NoPair, size |-> NoPair]

\* reason = '' and 'Aucune correspondance trouvee'
empty_reason == [kind |-> "", score |-> 0, vintage |-> NoPair, size |-> NoPair]

default_reason == [kind |-> "default", score |-> 0, vintage |-> NoPair, size |-> NoPair]

\* if ld_row['lwin16'] and ld_row['lwin16'] in gs_lwin16_set
exact_match(ld_row, lwin16_set) ==
  ld_row.lwin16 # None /\ ld_row.lwin16 \in lwin16_set

\* the approximate phase is entered only for a row without lwin7
enters_fuzzy_without_lwin7_only(ld_row) ==
  ld_row.wine_normalized # <<>> /\ ld_row.lwin7 = None

\* if not matched and ld_row['wine_normalized']
enters_fuzzy(ld_row) == ld_row.wine_normalized # <<>>

\* the comparison the wrong way round
meets_threshold_inverted(best_score, th) == best_score <= th

\* best_score >= threshold
meets_threshold(best_score, th) == best_score >= th

\* One iteration of the loop over the cellar rows, up to "if not matched":
\* the locals matched, match_type and reason, and the best candidate found.
\* th is the local threshold.
match_row(ld_row, gs_df, lwin16_set, th) ==
  LET best == best_match_of(ld_row, gs_df)
      found == best.best_match_idx # 0
  IN IF exact_match(ld_row, lwin16_set)
     THEN [matched |-> TRUE, match_type |-> "LWIN16", reason |-> empty_reason,
           best_score |-> 0, best_match_idx |-> 0]
     ELSE IF enters_fuzzy(ld_row)
     THEN IF meets_threshold(best.best_score, th) /\ found
          THEN IF /\ vintage_match(ld_row, gs_df[best.best_match_idx])
                  /\ size_match(ld_row, gs_df[best.best_match_idx])
               THEN [matched |-> TRUE, match_type |-> "Fuzzy",
                     reason |-> empty_reason,
                     best_score |-> best.best_score,
                     best_match_idx |-> best.best_match_idx]
               ELSE [matched |-> FALSE, match_type |-> "none",
                     reason |-> rejected_reason(ld_row, gs_df[best.best_match_idx],
                                                best.best_score),
                     best_score |-> best.best_score,
                     best_match_idx |-> best.best_match_idx]
          ELSE [matched |-> FALSE, match_type |-> "none",
                reason |-> insufficient_reason(best.best_score),
                best_score |-> best.best_score,
                best_match_idx |-> best.best_match_idx]
     ELSE [matched |-> FALSE, match_type |-> "none", reason |-> empty_reason,
           best_score |-> 0, best_match_idx |-> 0]

\* ld_row['vintage'] if ld_row['vintage'] != 1000 else 'NV' (the year is
\* written in digits, so that the field holds one kind of value)
vintage_or_nv(vintage) == IF vintage # 1000 THEN IntToStr(vintage) ELSE <<"N", "V">>

\* the entry is appended with the reason as it stands, possibly empty
missing_entry_raw_reason(ld_row, decision) ==
  [original_row |-> ld_row.original_row,
   wine |-> ld_row.wine,
   vintage |-> vintage_or_nv(ld_row.vintage),
   contenance_cl |-> ld_row.contenance_cl,
   lwin7 |-> ld_row.lwin7,
   match_type |-> decision.match_type,
   reason |-> decision.reason]

\* the dictionary appended to missing_wines
missing_entry(ld_row, decision) ==
  [original_row |-> ld_row.original_row,
   wine |-> ld_row.wine,
   vintage |-> vintage_or_nv(ld_row.vintage),
   contenance_cl |-> ld_row.contenance_cl,
   lwin7 |-> ld_row.lwin7,
   match_type |-> decision.match_type,
   reason |-> IF decision.reason = empty_reason THEN default_reason
              ELSE decision.reason]

\* the index is built on the lwin7 column
lwin16_set_of_lwin7_column(gs_df) ==
  {gs_df[k].lwin7 : k \in {j \in 1..Len(gs_df) : gs_df[j].lwin7 # None}}

\* set(googlesheet_df[googlesheet_df['lwin16'].notna()]['lwin16'])
lwin16_set_of(gs_df) ==
  {gs_df[k].lwin16 : k \in {j \in 1..Len(gs_df) : gs_df[j].lwin16 # None}}

\* An empty list of records makes a DataFrame without columns, and
\* googlesheet_df['lwin16'] raises KeyError on it.
BuildIndex ==
  /\ pc = "match_start"
  /\ IF googlesheet_df = <<>>
     THEN /\ pc' = "match_raised"
          /\ UNCHANGED gs_lwin16_set
     ELSE /\ pc' = "match_loop"
          /\ gs_lwin16_set' = lwin16_set_of(googlesheet_df)
  /\ UNCHANGED <<ld_raw, gs_raw, livredecave_df, googlesheet_df, score, idx,
                 missing_wines, decisions>>
  /\ UNCHANGED pureVars
  /\ UNCHANGED appVars

\* one iteration of "for idx, ld_row in livredecave_df.iterrows()"
MatchRow ==
  /\ pc = "match_loop"
  /\ idx < Len(livredecave_df)
  /\ LET ld_row == livredecave_df[idx + 1]
         decision == match_row(ld_row, googlesheet_df, gs_lwin16_set, threshold)
     IN /\ decisions' = Append(decisions, decision)
        /\ missing_wines' = IF decision.matched THEN missing_wines
                            ELSE Append(missing_wines, missing_entry(ld_row, decision))
  /\ idx' = idx + 1
  /\ UNCHANGED <<pc, ld_raw, gs_raw, livredecave_df, googlesheet_df, score,
                 gs_lwin16_set>>
  /\ UNCHANGED pureVars
  /\ UNCHANGED appVars

\* return missing_wines
MatchReturn ==
  /\ pc = "match_loop"
  /\ idx = Len(livredecave_df)
  /\ pc' = "match_done"
  /\ UNCHANGED engineVars
  /\ UNCHANGED pureVars
  /\ UNCHANGED appVars

(***************************************************************************)
(* Specification Spec: fuzzy_match_wines on every pair of a cellar frame   *)
(* of at most MaxCellar records and a reference frame of at most MaxRef    *)
(* records, for every score table. The records are records the projector   *)
(* produces: wine_normalized is normalize_string(wine) and lwin16 is        *)
(* create_lwin16 of the three fields.                                      *)
(***************************************************************************)
MaxCellar == 2

MaxRef == 2

Petrus == <<"P","e","t","r","u","s">>

PETRUS == <<"P","E","T","R","U","S">>

Margaux == <<"M","a","r","g","a","u","x">>

Dashes == <<"-","-","-">>

Lwin1 == <<"1","2","3","4","5","6","7">>

Scores == {69, 70}

canonical(row, wine, vintage, size_cl, lwin7) ==
  [original_row |-> row,
   wine |-> wine,
   wine_normalized |-> normalize_string(wine),
   vintage |-> vintage,
   contenance_cl |-> size_cl,
   lwin7 |-> lwin7,
   lwin16 |-> IF lwin7 # None THEN create_lwin16(lwin7, vintage, size_cl) ELSE None]

CellarWines == {Petrus, Dashes}

\* the cellar records of sheet row k + 1: a standard bottle of Petrus, with
\* or without vintage, with or without lwin7, and a wine whose name
\* normalizes to the empty string
CellarRecords(k) ==
  {canonical(k + 1, Petrus, v, 75, l) : v \in {1000, 2010}, l \in {None, Lwin1}}
  \cup {canonical(k + 1, Dashes, 2010, 75, None)}

RefWines == {PETRUS, Margaux}

\* the reference records: standard bottles of a wine of the same normalized
\* name, with each vintage, without lwin7 and (for 2010) with it; a bottle
\* of it whose volume was scaled by 100 ("75cl" read with the liter rule);
\* a wine of another name, with and without lwin7
RefRecords ==
  {canonical(0, PETRUS, v, 75, None) : v \in {1000, 2010, 2011}}
  \cup {canonical(0, PETRUS, 2010, 75, Lwin1)}
  \cup {canonical(0, PETRUS, 2010, 7500, None)}
  \cup {canonical(0, Margaux, 2010, 75, l) : l \in {None, Lwin1}}

\* the frames of n records; the record at position k comes from sheet row k
RECURSIVE CellarFrames(_)
CellarFrames(n) ==
  IF n = 0 THEN {<<>>}
  ELSE {Append(f, r) : f \in CellarFrames(n - 1), r \in CellarRecords(n)}

RECURSIVE RefFrames(_)
RefFrames(n) ==
  IF n = 0 THEN {<<>>}
  ELSE {Append(f, r) : f \in RefFrames(n - 1), r \in RefRecords}

\* the pairs of distinct non-empty normalized names a score is asked for
ScoredPairs ==
  {<<normalize_string(a), normalize_string(b)>> : a \in CellarWines, b \in RefWines}
  \ {p \in {<<normalize_string(a), normalize_string(b)>> :
               a \in CellarWines, b \in RefWines} :
       p[1] = <<>> \/ p[2] = <<>> \/ p[1] = p[2]}

Init ==
  /\ pc = "match_start"
  /\ \E n \in 0..MaxCellar : livredecave_df \in CellarFrames(n)
  /\ \E n \in 0..MaxRef : googlesheet_df \in RefFrames(n)
  /\ score \in [ScoredPairs -> Scores]
  /\ ld_raw = <<>> /\ gs_raw = <<>>
  /\ gs_lwin16_set = {}
  /\ idx = 0
  /\ missing_wines = <<>>
  /\ decisions = <<>>
  /\ arg = None /\ ret = None /\ ret2 = None
  /\ AppIdle

Next == BuildIndex \/ MatchRow \/ MatchReturn

Spec == Init /\ [][Next]_vars

(***************************************************************************)
(* Claims on fuzzy_match_wines (specification Spec)                        *)
(***************************************************************************)
\* the cellar rows the loop has iterated
Iterated == 1..idx

\* the entry of the result list for cellar row k, if any
EntriesOf(k) ==
  {m \in 1..Len(missing_wines) :
     missing_wines[m].original_row = livredecave_df[k].original_row}

InMissing(k) == EntriesOf(k) # {}

\* the exact key of cellar row k is defined and is the key of a reference record
KeyInReference(k) ==
  /\ livredecave_df[k].lwin16 # None
  /\ \E j \in 1..Len(googlesheet_df) :
       googlesheet_df[j].lwin16 = livredecave_df[k].lwin16

ScoreOf(k, j) ==
  fuzz_score(livredecave_df[k].wine_normalized, googlesheet_df[j].wine_normalized)

\* the first reference record of maximal score for cellar row k; 0 when no
\* reference record scores above 0
BestOf(k) ==
  IF \E j \in 1..Len(googlesheet_df) : ScoreOf(k, j) > 0
  THEN CHOOSE j \in 1..Len(googlesheet_df) :
         /\ \A i \in 1..Len(googlesheet_df) : ScoreOf(k, i) <= ScoreOf(k, j)
         /\ \A i \in 1..(j - 1) : ScoreOf(k, i) < ScoreOf(k, j)
  ELSE 0

\* cellar row k is not matched by exact key, has a normalized name, and its
\* best candidate's score meets the threshold
BestMeetsThreshold(k) ==
  /\ ~KeyInReference(k)
  /\ livredecave_df[k].wine_normalized # <<>>
  /\ BestOf(k) # 0
  /\ ScoreOf(k, BestOf(k)) >= threshold

VintagesAgree(k, j) ==
  \/ livredecave_df[k].vintage = googlesheet_df[j].vintage
  \/ livredecave_df[k].vintage = 1000
  \/ googlesheet_df[j].vintage = 1000

\* C1: a cellar record whose exact key is defined and equal to the exact key
\* of a reference record is never in the missing list, whatever the names and
\* the scores are.
C1_ExactKeyNeverMissing ==
  \A k \in 1..Len(livredecave_df) : KeyInReference(k) => ~InMissing(k)

\* the call has returned, and a cellar record was matched by its exact key with
\* a reference record of another name that scores below the threshold
C1_Witness ==
  /\ pc = "match_done"
  /\ \E k \in 1..Len(livredecave_df), j \in 1..Len(googlesheet_df) :
       /\ googlesheet_df[j].lwin16 = livredecave_df[k].lwin16
       /\ livredecave_df[k].lwin16 # None
       /\ googlesheet_df[j].wine_normalized # livredecave_df[k].wine_normalized
       /\ \A i \in 1..Len(googlesheet_df) : ScoreOf(k, i) < threshold
       /\ decisions[k].match_type = "LWIN16"
       /\ ~InMissing(k)

\* C2 (as stated): a cellar record that has an lwin7 but whose exact key is
\* not in the reference key set is always reported missing.
C2_Original ==
  pc = "match_done" =>
    \A k \in 1..Len(livredecave_df) :
      (livredecave_df[k].lwin7 # None /\ ~KeyInReference(k)) => InMissing(k)

\* C2 (amended): the approximate phase is entered for every cellar record that
\* was not matched by exact key and has a non-empty normalized name, with or
\* without lwin7: a record with an lwin7 whose exact key is not in the
\* reference key set is marked matched exactly when its best candidate meets
\* the threshold and passes the vintage and the volume check, and is reported
\* missing otherwise.
C2_FuzzyAlsoWithLwin7 ==
  \A k \in Iterated :
    (livredecave_df[k].lwin7 # None /\ ~KeyInReference(k)) =>
      /\ decisions[k].matched <=>
           /\ BestMeetsThreshold(k)
           /\ VintagesAgree(k, BestOf(k))
           /\ size_match(livredecave_df[k], googlesheet_df[BestOf(k)])
      /\ InMissing(k) <=> ~decisions[k].matched

\* a record with an lwin7 and an exact key unknown to the reference was
\* matched through the similarity of its name
C2_Witness ==
  /\ pc = "match_done"
  /\ \E k \in 1..Len(livredecave_df) :
       /\ livredecave_df[k].lwin7 # None
       /\ ~KeyInReference(k)
       /\ decisions[k].matched
       /\ decisions[k].match_type = "Fuzzy"
       /\ ~InMissing(k)

\* |a / b - num / den| <= 5% of num / den, for b > 0
RatioNear(a, b, num, den) ==
  Abs(a * den - num * b) * 100 <= 5 * num * b

\* the volume rule of the specification: within 10 cl, or a ratio within 5%
\* of 1, 0.01, 100, 0.1 or 10
VolumeRule(a, b) ==
  \/ Abs(a - b) <= 10
  \/ /\ b > 0
     /\ \/ RatioNear(a, b, 1, 1) \/ RatioNear(a, b, 1, 100)
        \/ RatioNear(a, b, 100, 1) \/ RatioNear(a, b, 1, 10)
        \/ RatioNear(a, b, 10, 1)

\* the volume check of row k passed: the row was matched, or it was rejected
\* for its vintage alone
VolumePassed(k) ==
  \/ decisions[k].matched
  \/ /\ missing_wines[CHOOSE m \in EntriesOf(k) : TRUE].reason.kind = "rejected"
     /\ missing_wines[CHOOSE m \in EntriesOf(k) : TRUE].reason.size = NoPair

\* C4 (as stated): for a best candidate whose score meets the threshold the
\* volume check passes exactly when the volumes are within 10 cl or their ratio
\* is within 5% of 1, 0.01, 100, 0.1 or 10.
C4_VolumeRule ==
  \A k \in Iterated :
    BestMeetsThreshold(k) =>
      (VolumePassed(k) <=>
         VolumeRule(livredecave_df[k].contenance_cl,
                    googlesheet_df[BestOf(k)].contenance_cl))

\* C5: when the best candidate meets the threshold and the two vintages differ
\* and neither is 1000, the record is reported missing with a reason that
\* names the vintage conflict with both values; when either vintage is 1000 or
\* both are equal, the vintage check passes (no vintage conflict is reported,
\* and the record is matched if the volume check passes too).
C5_VintageCheck ==
  \A k \in Iterated :
    BestMeetsThreshold(k) =>
      LET c == livredecave_df[k]
          b == googlesheet_df[BestOf(k)]
      IN IF c.vintage # b.vintage /\ c.vintage # 1000 /\ b.vintage # 1000
         THEN /\ ~decisions[k].matched
              /\ Cardinality(EntriesOf(k)) = 1
              /\ \A m \in EntriesOf(k) :
                   /\ missing_wines[m].reason.kind = "rejected"
                   /\ missing_wines[m].reason.vintage = <<c.vintage, b.vintage>>
         ELSE /\ \A m \in EntriesOf(k) :
                   /\ missing_wines[m].reason.kind = "rejected"
                   /\ missing_wines[m].reason.vintage = NoPair
              /\ size_match(c, b) => (decisions[k].matched /\ ~InMissing(k))

\* the call has returned; a record of 2010 was rejected for its conflict with
\* a best candidate of 2011, and a record without vintage passed the check
\* against the same candidate
C5_Witness ==
  /\ pc = "match_done"
  /\ \E k \in 1..Len(livredecave_df), m \in 1..Len(missing_wines) :
       /\ BestMeetsThreshold(k)
       /\ m \in EntriesOf(k)
       /\ missing_wines[m].reason.vintage = <<2010, 2011>>
  /\ \E k \in 1..Len(livredecave_df) :
       /\ BestMeetsThreshold(k)
       /\ livredecave_df[k].vintage = 1000
       /\ googlesheet_df[BestOf(k)].vintage = 2011
       /\ decisions[k].match_type = "Fuzzy"

\* the thresholds the monotonicity is checked for
Thresholds == {40, 70, 100}

\* the cellar rows fuzzy_match_wines reports missing when its local
\* threshold is t
MissingAt(t) ==
  {k \in 1..Len(livredecave_df) :
     ~match_row(livredecave_df[k], googlesheet_df,
                lwin16_set_of(googlesheet_df), t).matched}

\* C6: when the call has returned, for its frames and thresholds t1 <= t2,
\* the records reported missing at t1 are reported missing at t2, and the
\* records matched by exact key are missing at no threshold; the run at the
\* threshold of the code has reported the records of MissingAt(threshold).
C6_ThresholdMonotone ==
  pc = "match_done" =>
    LET missing == [t \in Thresholds \cup {threshold} |-> MissingAt(t)]
    IN /\ \A t1 \in Thresholds, t2 \in Thresholds :
            t1 <= t2 => missing[t1] \subseteq missing[t2]
       /\ \A t \in Thresholds, k \in 1..Len(livredecave_df) :
            KeyInReference(k) => k \notin missing[t]
       /\ {k \in 1..Len(livredecave_df) : InMissing(k)} = missing[threshold]

\* the call has returned; a record that threshold 40 would match is missing
\* at the threshold of the code, and a record matched by exact key is missing
\* at neither
C6_Witness ==
  /\ pc = "match_done"
  /\ \E k \in 1..Len(livredecave_df) : InMissing(k) /\ k \notin MissingAt(40)
  /\ \E k \in 1..Len(livredecave_df) :
       KeyInReference(k) /\ ~InMissing(k) /\ k \notin MissingAt(100)

\* the cellar rows among the first n that were not marked matched, in order
RECURSIVE UnmatchedRows(_)
UnmatchedRows(n) ==
  IF n = 0 THEN <<>>
  ELSE IF decisions[n].matched THEN UnmatchedRows(n - 1)
  ELSE Append(UnmatchedRows(n - 1), livredecave_df[n])

\* C7: the result holds exactly the cellar records not marked matched, each
\* once, in source order, each with the record's fields and a non-empty
\* reason.
C7_ResultIsUnmatchedInOrder ==
  /\ Len(decisions) = idx
  /\ Len(missing_wines) = Len(UnmatchedRows(idx))
  /\ \A m \in 1..Len(missing_wines) :
       /\ missing_wines[m].original_row = UnmatchedRows(idx)[m].original_row
       /\ missing_wines[m].wine = UnmatchedRows(idx)[m].wine
       /\ missing_wines[m].contenance_cl = UnmatchedRows(idx)[m].contenance_cl
       /\ missing_wines[m].lwin7 = UnmatchedRows(idx)[m].lwin7
       /\ missing_wines[m].reason.kind # ""
  /\ \A k \in Iterated :
       Cardinality(EntriesOf(k)) = IF decisions[k].matched THEN 0 ELSE 1
  /\ pc = "match_done" => idx = Len(livredecave_df)

\* the call has returned two missing records in source order, one of them
\* with the default reason
C7_Witness ==
  /\ pc = "match_done"
  /\ Len(livredecave_df) = 2
  /\ Len(missing_wines) = 2
  /\ missing_wines[1].original_row = 2
  /\ missing_wines[2].original_row = 3
  /\ missing_wines[1].reason.kind = "default"
  /\ missing_wines[2].reason.kind = "insufficient"

(***************************************************************************)
(* Specification SpecNorm: normalize_string applied to every string over   *)
(* NormAlphabet of length at most MaxLen.                                  *)
(***************************************************************************)
MaxLen == 3

NormAlphabet == {"a", "B", "e_acute", "E_ACUTE", "comb_acute", "7", "-", " ", "tab"}

RECURSIVE StringsUpTo(_, _)
StringsUpTo(alphabet, n) ==
  IF n = 0 THEN {<<>>}
  ELSE LET shorter == StringsUpTo(alphabet, n - 1)
       IN shorter \cup {Append(s, c) : s \in {t \in shorter : Len(t) = n - 1},
                                        c \in alphabet}

NormInit ==
  /\ pc = "norm_call"
  /\ arg \in StringsUpTo(NormAlphabet, MaxLen)
  /\ ret = None
  /\ ret2 = None
  /\ EngineIdle
  /\ AppIdle

\* ret = normalize_string(arg)
NormCall ==
  /\ pc = "norm_call"
  /\ ret' = normalize_string(arg)
  /\ pc' = "norm_again"
  /\ UNCHANGED <<arg, ret2>>
  /\ UNCHANGED engineVars
  /\ UNCHANGED appVars

\* the result is normalized again: ret2 = normalize_string(ret)
NormAgain ==
  /\ pc = "norm_again"
  /\ ret2' = normalize_string(ret)
  /\ pc' = "norm_done"
  /\ UNCHANGED <<arg, ret>>
  /\ UNCHANGED engineVars
  /\ UNCHANGED appVars

NormNext == NormCall \/ NormAgain

SpecNorm == NormInit /\ [][NormNext]_vars

\* C10: normalize_string is idempotent: normalizing an already normalized
\* string returns it unchanged.
C10_Idempotent ==
  pc = "norm_done" => ret2 = ret

\* an input with an accent, upper case and punctuation, whose normal form
\* differs from it, has been normalized twice
C10_Witness ==
  /\ pc = "norm_done"
  /\ arg = <<"E_ACUTE", "-", "B">>
  /\ ret = <<"e", " ", "b">>
  /\ ret2 = <<"e", " ", "b">>

(***************************************************************************)
(* app.py: the helpers of the /compare handler                             *)
(***************************************************************************)
\* re.sub(r'[^\w\s]', ' ', s)
SubNonWord(s) ==
  [k \in 1..Len(s) |->
     IF s[k] \in WordChars \cup Whitespace THEN s[k] ELSE " "]

\* normalize_text: lower case, strip, punctuation to spaces, runs of
\* whitespace to one space, strip
normalize_text(text) ==
  IF text = NaN \/ text = None \/ text = <<>> THEN <<>>
  ELSE JoinSpace(Split(SubNonWord(Strip(Lower(text)))))

\* app.py's extract_lwin7: the first seven digits of the first run of
\* digits, when that run has at least seven
app_extract_lwin7(lwin_text) ==
  IF lwin_text = NaN THEN None
  ELSE LET lwin_str == DropLwinPrefix(Strip(lwin_text))
           p == FirstDigitPos(lwin_str)
       IN IF p # 0 /\ DigitRunLen(lwin_str, p) >= 7
          THEN SubSeq(lwin_str, p, p + 6)
          ELSE None

\* contenance == num / den, for the float f of ParseFloat
FloatEquals(f, num, den) ==
  /\ f.kind = "num"
  /\ ~f.neg
  /\ (f.ip * Pow10(f.flen) + f.fp) * den = num * Pow10(f.flen)

\* f"{n:05d}"
format_05d(n) ==
  IF n >= 0 THEN zfill(IntToStr(n), 5)
  ELSE <<"-">> \o zfill(IntToStr(0 - n), 4)

\* the body of format_contenance's try block, for contenance = float(...)
format_float(contenance) ==
  IF contenance.kind # "num"       \* int(nan), int(inf): caught by except
  THEN <<"0","0","7","5","0">>
  ELSE IF \/ FloatEquals(contenance, 75, 100)
          \/ FloatEquals(contenance, 75, 1)
          \/ FloatEquals(contenance, 750, 1)
  THEN <<"0","0","7","5","0">>
  ELSE IF \/ FloatEquals(contenance, 15, 10)
          \/ FloatEquals(contenance, 150, 1)
          \/ FloatEquals(contenance, 1500, 1)
  THEN <<"0","1","5","0","0">>
  ELSE IF \/ FloatEquals(contenance, 3, 1)
          \/ FloatEquals(contenance, 300, 1)
          \/ FloatEquals(contenance, 3000, 1)
  THEN <<"0","3","0","0","0">>
  ELSE IF contenance.neg
  THEN format_05d(0 - FloatMul100Trunc(contenance.ip, contenance.fp,
                                       contenance.flen))
  ELSE IF contenance.ip < 10
  THEN format_05d(FloatMul100Trunc(contenance.ip, contenance.fp,
                                   contenance.flen))
  ELSE format_05d(contenance.ip)

\* float(contenance_value) raises ValueError on a string that is no number:
\* the except clause returns "00750"
format_contenance(contenance_value) ==
  IF contenance_value = NaN THEN <<"0","0","7","5","0">>
  ELSE CHOOSE code \in {format_float(contenance) :
                          contenance \in {ParseFloat(contenance_value)}} : TRUE

\* s.upper()
UpperChar(c) ==
  IF \E u \in UpperLetters \cup AccentedLetters : u # c /\ LowerChar(u) = c
  THEN CHOOSE u \in UpperLetters \cup AccentedLetters : u # c /\ LowerChar(u) = c
  ELSE c

Upper(s) == [k \in 1..Len(s) |-> UpperChar(s[k])]

format_vintage(vintage_value) ==
  IF vintage_value = NaN \/ Strip(vintage_value) = <<>>
  THEN <<"1","0","0","0">>
  ELSE LET vintage_str == Upper(Strip(vintage_value))
           f == ParseFloat(vintage_str)
       IN IF vintage_str \in {<<"N","V">>,
                              <<"N","O","N"," ","V","I","N","T","A","G","E">>}
          THEN <<"1","0","0","0">>
          ELSE IF f.kind = "num" /\ ~f.neg /\ 1800 <= f.ip /\ f.ip <= 2030
          THEN IntToStr(f.ip)
          ELSE <<"1","0","0","0">>

\* app.py's create_lwin16
app_create_lwin16(lwin7, vintage, contenance) ==
  IF lwin7 = None \/ lwin7 = <<>> THEN None
  ELSE lwin7 \o format_vintage(vintage) \o format_contenance(contenance)

\* fuzz.token_sort_ratio on two normalized names
token_sort_ratio(a, b) == IF a = b THEN 100 ELSE score[<<a, b>>]

\* the keys of candidates_normalized, in the order the dict holds them: the
\* non-empty normalized names, each at its first occurrence
RECURSIVE candidate_keys_from(_, _, _)
candidate_keys_from(candidates, k, keys) ==
  IF k > Len(candidates) THEN keys
  ELSE LET n == normalize_text(candidates[k])
       IN candidate_keys_from(candidates, k + 1,
            IF n = <<>> \/ (\E j \in 1..Len(keys) : keys[j] = n)
            THEN keys ELSE Append(keys, n))

candidate_keys(candidates) == candidate_keys_from(candidates, 1, <<>>)

\* candidates_normalized[key]: the last candidate that normalizes to key
candidate_of(candidates, key) ==
  candidates[CHOOSE k \in 1..Len(candidates) :
               /\ normalize_text(candidates[k]) = key
               /\ \A j \in (k + 1)..Len(candidates) :
                    normalize_text(candidates[j]) # key]

\* process.extractOne(query, keys, scorer=fuzz.token_sort_ratio): the first
\* key of the highest score (keys is not empty)
extractOne(query, keys) ==
  LET k == CHOOSE m \in 1..Len(keys) :
             /\ \A j \in 1..Len(keys) :
                  token_sort_ratio(query, keys[j]) <= token_sort_ratio(query, keys[m])
             /\ \A j \in 1..(m - 1) :
                  token_sort_ratio(query, keys[j]) < token_sort_ratio(query, keys[m])
  IN <<keys[k], token_sort_ratio(query, keys[k])>>

\* threshold * 100 of fuzzy_match_wine
app_threshold == 40

NoMatch == [matched_wine |-> None, score |-> 0]

fuzzy_match_wine(wine_name, candidates) ==
  LET wine_normalized == normalize_text(wine_name)
      keys == candidate_keys(candidates)
      match == extractOne(wine_normalized, keys)
  IN IF wine_name = <<>> \/ candidates = <<>> THEN NoMatch
     ELSE IF wine_normalized = <<>> THEN NoMatch
     ELSE IF \E j \in 1..Len(keys) : keys[j] = wine_normalized
     THEN [matched_wine |-> candidate_of(candidates, wine_normalized),
           score |-> 100]
     ELSE IF keys # <<>> /\ match[2] >= app_threshold
     THEN [matched_wine |-> candidate_of(candidates, match[1]),
           score |-> match[2]]
     ELSE NoMatch

(***************************************************************************)
(* app.py: compare_files, the /compare handler                             *)
(***************************************************************************)
\* Series.astype(str) on one cell
astype_str(cell) == IF cell = NaN THEN <<"n","a","n">> ELSE cell

\* google_df after dropna(subset=[columns[0]]), with the columns
\* wine_name, vintage, contenance, lwin7, lwin16
google_record(row) ==
  LET vintage == IF Len(row) > 2 THEN Cell(row, 2) ELSE <<>>
      contenance == IF Len(row) > 3 THEN Cell(row, 3) ELSE <<"7","5">>
      lwin7 == IF Len(row) > 6 THEN app_extract_lwin7(Cell(row, 6)) ELSE None
  IN [wine_name |-> astype_str(Cell(row, 0)),
      vintage |-> vintage,
      contenance |-> contenance,
      lwin7 |-> lwin7,
      lwin16 |-> app_create_lwin16(lwin7, vintage, contenance)]

google_frame(rows) ==
  LET kept == SelectSeq(rows, LAMBDA row : Cell(row, 0) # NaN)
  IN [k \in 1..Len(kept) |-> google_record(kept[k])]

\* cave_df after dropna(how='all'), with the same columns
cave_record(row) ==
  LET vintage == IF Len(row) > 7 THEN Cell(row, 7) ELSE <<>>
      contenance == IF Len(row) > 8 THEN Cell(row, 8) ELSE <<"0",".","7","5">>
      lwin7 == IF Len(row) > 10 THEN app_extract_lwin7(Cell(row, 10)) ELSE None
  IN [wine_name |-> Strip(astype_str(Cell(row, 2)) \o <<" ">> \o
                          astype_str(Cell(row, 4)) \o <<" ">> \o
                          astype_str(Cell(row, 5)) \o <<" ">> \o
                          astype_str(Cell(row, 6))),
      vintage |-> vintage,
      contenance |-> contenance,
      lwin7 |-> lwin7,
      lwin16 |-> app_create_lwin16(lwin7, vintage, contenance)]

cave_frame(rows) ==
  LET kept == SelectSeq(rows, LAMBDA row : \E i \in 1..Len(row) : row[i] # NaN)
  IN [k \in 1..Len(kept) |-> cave_record(kept[k])]

\* set(google_df['lwin16'].dropna())
google_lwin16_set == {google_df[j].lwin16 : j \in 1..Len(google_df)} \ {None}

\* google_df['wine_name'].tolist()
google_wine_names == [j \in 1..Len(google_df) |-> google_df[j].wine_name]

\* one iteration of the loop over cave_df: is_missing, match_method,
\* match_score and the matched_wine of the fuzzy branch
compare_row(row) ==
  LET m == fuzzy_match_wine(row.wine_name, google_wine_names)
  IN IF row.lwin16 # None /\ row.lwin16 \in google_lwin16_set
     THEN [is_missing |-> FALSE, match_method |-> "LWIN16",
           match_score |-> 100, matched_wine |-> None]
     ELSE IF row.lwin7 = None /\ m.matched_wine # None
     THEN [is_missing |-> FALSE, match_method |-> "Fuzzy",
           match_score |-> m.score, matched_wine |-> m.matched_wine]
     ELSE [is_missing |-> TRUE, match_method |-> "Aucun",
           match_score |-> 0, matched_wine |-> None]

\* the dict appended to missing_wines
app_missing_entry(row, decision) ==
  [wine_name |-> row.wine_name,
   vintage |-> row.vintage,
   contenance |-> row.contenance,
   lwin7 |-> row.lwin7,
   lwin16 |-> row.lwin16,
   statut |-> "MANQUANT",
   methode |-> decision.match_method,
   score |-> decision.match_score]

\* the two sheets are read and the columns are added
ReadSheets ==
  /\ pc = "compare_start"
  /\ google_df' = google_frame(google_xlsx)
  /\ cave_df' = cave_frame(cave_xlsx)
  /\ pc' = "compare_loop"
  /\ UNCHANGED <<google_xlsx, cave_xlsx, cave_idx, app_missing_wines,
                 app_decisions, files, requests>>
  /\ UNCHANGED pureVars
  /\ UNCHANGED engineVars

\* for idx, row in cave_df.iterrows()
CompareRow ==
  /\ pc = "compare_loop"
  /\ cave_idx < Len(cave_df)
  /\ LET row == cave_df[cave_idx + 1]
         decision == compare_row(row)
     IN /\ app_decisions' = Append(app_decisions, decision)
        /\ app_missing_wines' =
             IF decision.is_missing
             THEN Append(app_missing_wines, app_missing_entry(row, decision))
             ELSE app_missing_wines
  /\ cave_idx' = cave_idx + 1
  /\ UNCHANGED <<pc, google_xlsx, cave_xlsx, google_df, cave_df, files,
                 requests>>
  /\ UNCHANGED pureVars
  /\ UNCHANGED engineVars

\* the loop is over: the handler answers with the counts
CompareReturn ==
  /\ pc = "compare_loop"
  /\ cave_idx = Len(cave_df)
  /\ pc' = "compare_done"
  /\ UNCHANGED appVars
  /\ UNCHANGED pureVars
  /\ UNCHANGED engineVars

(***************************************************************************)
(* Specification SpecApp: compare_files on every pair of uploaded sheets   *)
(* of at most MaxCellar cellar rows and at most MaxRef reference rows from *)
(* the rows below, for every table of token_sort_ratio scores.             *)
(***************************************************************************)
Pom == <<"P","o","m">>

Latour == <<"L","a","t","o","u","r">>

\* a reference name that normalizes to the cellar name "Petrus Pom R 75"
PetrusRef ==
  <<"P","E","T","R","U","S",","," ","P","o","m"," ","R"," ","7","5">>

LwinCell == <<"L","W","I","N","1","2","3","4","5","6","7">>

AppScores == {39, 40}

\* a reference sheet row of 7 columns
google_row(name, vintage, contenance, lwin) ==
  <<name, NaN, vintage, contenance, NaN, NaN, lwin>>

\* a cellar sheet row of 11 columns
cave_row(producer, c4, c5, c6, vintage, contenance, lwin) ==
  <<NaN, NaN, producer, NaN, c4, c5, c6, vintage, contenance, NaN, lwin>>

GoogleRows ==
  {google_row(PetrusRef, <<"2","0","1","1">>, <<"7","5">>, NaN),
   google_row(PetrusRef, <<"2","0","1","0">>, <<"0",".","7","5">>, LwinCell),
   google_row(Margaux, <<"2","0","1","0">>, <<"1","5","0">>, NaN),
   google_row(NaN, NaN, NaN, NaN)}

CaveRows ==
  {cave_row(Petrus, Pom, <<"R">>, <<"7","5">>, <<"2","0","1","0">>,
            <<"0",".","7","5">>, NaN),
   cave_row(Petrus, Pom, <<"R">>, <<"7","5">>, <<"2","0","1","0">>,
            <<"0",".","7","5">>, LwinCell),
   cave_row(Petrus, Pom, <<"R">>, <<"7","5">>, <<"2","0","1","1">>,
            <<"0",".","7","5">>, LwinCell),
   cave_row(Latour, NaN, NaN, NaN, NaN, <<"1",".","5">>, NaN),
   cave_row(NaN, NaN, NaN, NaN, NaN, NaN, NaN)}

RECURSIVE SheetsOf(_, _)
SheetsOf(rows, n) ==
  IF n = 0 THEN {<<>>}
  ELSE {Append(f, r) : f \in SheetsOf(rows, n - 1), r \in rows}

\* the pairs of distinct normalized names token_sort_ratio is asked for
AppScoredPairs ==
  LET cave_names == {normalize_text(cave_frame(<<r>>)[1].wine_name) :
                       r \in {c \in CaveRows : cave_frame(<<c>>) # <<>>}}
      google_names == {normalize_text(google_frame(<<r>>)[1].wine_name) :
                         r \in {g \in GoogleRows : google_frame(<<g>>) # <<>>}}
  IN {p \in cave_names \X google_names : p[1] # p[2]}

AppInit ==
  /\ pc = "compare_start"
  /\ \E n \in 1..MaxRef : google_xlsx \in SheetsOf(GoogleRows, n)
  /\ \E n \in 1..MaxCellar : cave_xlsx \in SheetsOf(CaveRows, n)
  /\ google_frame(google_xlsx) # <<>>
  /\ cave_frame(cave_xlsx) # <<>>
  /\ score \in [AppScoredPairs -> AppScores]
  /\ google_df = <<>> /\ cave_df = <<>>
  /\ cave_idx = 0 /\ app_missing_wines = <<>> /\ app_decisions = <<>>
  /\ files = <<>> /\ requests = <<>>
  /\ ld_raw = <<>> /\ gs_raw = <<>>
  /\ livredecave_df = <<>> /\ googlesheet_df = <<>>
  /\ gs_lwin16_set = {}
  /\ idx = 0 /\ missing_wines = <<>> /\ decisions = <<>>
  /\ arg = None /\ ret = None /\ ret2 = None

AppNext == ReadSheets \/ CompareRow \/ CompareReturn

SpecApp == AppInit /\ [][AppNext]_vars

(***************************************************************************)
(* Claims on compare_files (specification SpecApp)                         *)
(***************************************************************************)
\* the vintage corroboration on the formatted vintages: equal, or one of
\* them is the sentinel 1000
AppVintagesAgree(cave, google) ==
  \/ format_vintage(cave.vintage) = format_vintage(google.vintage)
  \/ format_vintage(cave.vintage) = <<"1","0","0","0">>
  \/ format_vintage(google.vintage) = <<"1","0","0","0">>

\* the volume corroboration on the formatted volumes
AppVolumesAgree(cave, google) ==
  LET a == format_contenance(cave.contenance)
      b == format_contenance(google.contenance)
  IN a = b \/ (OnlyDigits(a) = a /\ OnlyDigits(b) = b
               /\ VolumeRule(StrToNat(a), StrToNat(b)))

\* C3 (as stated, for the /compare loop of app.py): a cellar row treated as
\* matched through the approximate phase has a score that meets the
\* threshold, and the reference row it was matched with passes the vintage
\* corroboration and the volume corroboration.
C3_AppCorroboration ==
  \A k \in 1..cave_idx :
    app_decisions[k].match_method = "Fuzzy" =>
      /\ app_decisions[k].match_score >= app_threshold
      /\ \E j \in 1..Len(google_df) :
           /\ google_df[j].wine_name = app_decisions[k].matched_wine
           /\ AppVintagesAgree(cave_df[k], google_df[j])
           /\ AppVolumesAgree(cave_df[k], google_df[j])

(***************************************************************************)
(* wine_comparison_backend.py: compare_files, from the two loaded sheets   *)
(* to the result of fuzzy_match_wines                                      *)
(***************************************************************************)
\* ld_processed = process_livredecave(livredecave_df);
\* gs_processed = process_googlesheet(googlesheet_df)
ProcessSheets ==
  /\ pc = "process_start"
  /\ livredecave_df' = process_livredecave(ld_raw)
  /\ googlesheet_df' = process_googlesheet(gs_raw)
  /\ pc' = "match_start"
  /\ UNCHANGED <<ld_raw, gs_raw, score, gs_lwin16_set, idx, missing_wines,
                 decisions>>
  /\ UNCHANGED pureVars
  /\ UNCHANGED appVars

\* results['livredecave_total']
livredecave_total == Len(livredecave_df)

(***************************************************************************)
(* Specification SpecPipe: compare_files on every pair of a cellar sheet   *)
(* of at most MaxCellar rows and a reference sheet of at most MaxRef rows  *)
(* from the rows below; every pair of names has the same score.            *)
(***************************************************************************)
COFFRET == <<"C","O","F","F","R","E","T">>

Verre == <<"v","e","r","r","e">>

\* a cellar sheet row of 11 columns: the name parts in C, E, F, G, the
\* vintage in H, the volume (liters) in I, the LWIN in K
ld_sheet_row(c, e, vintage, size, lwin) ==
  <<NaN, NaN, c, NaN, e, NaN, NaN, vintage, size, NaN, lwin>>

\* a reference sheet row of 7 columns: the name in A, the vintage in C, the
\* volume (centiliters) in D, the LWIN in G
gs_sheet_row(name, vintage, size, lwin) ==
  <<name, NaN, vintage, size, NaN, NaN, lwin>>

\* a wine, an accessory named in upper case that carries the key of a
\* reference row, a wine sold with an accessory, an empty row
LdSheetRows ==
  {ld_sheet_row(Petrus, NaN, <<"2","0","1","0">>, <<"0",".","7","5">>, NaN),
   ld_sheet_row(COFFRET, NaN, <<"2","0","1","0">>, <<"0",".","7","5">>, Lwin1),
   ld_sheet_row(Petrus, Verre, <<"2","0","1","0">>, <<"0",".","7","5">>, NaN),
   ld_sheet_row(NaN, NaN, NaN, NaN, NaN)}

\* a wine, an accessory that carries a key, another wine with the same key
GsSheetRows ==
  {gs_sheet_row(PETRUS, <<"2","0","1","0">>, <<"7","5">>, NaN),
   gs_sheet_row(COFFRET, <<"2","0","1","0">>, <<"7","5">>, Lwin1),
   gs_sheet_row(Margaux, <<"2","0","1","1">>, <<"7","5">>, Lwin1)}

\* the pairs of distinct normalized names of the rows
PipePairs ==
  LET ld_names == {normalize_string(ld_wine_name(r)) : r \in LdSheetRows}
      gs_names == {normalize_string(gs_wine_name(r)) : r \in GsSheetRows}
  IN {p \in ld_names \X gs_names : p[1] # <<>> /\ p[2] # <<>> /\ p[1] # p[2]}

PipeInit ==
  /\ pc = "process_start"
  /\ \E n \in 1..MaxCellar : ld_raw \in SheetsOf(LdSheetRows, n)
  /\ \E n \in 1..MaxRef : gs_raw \in SheetsOf(GsSheetRows, n)
  /\ \E s \in Scores : score = [p \in PipePairs |-> s]
  /\ livredecave_df = <<>> /\ googlesheet_df = <<>>
  /\ gs_lwin16_set = {}
  /\ idx = 0
  /\ missing_wines = <<>>
  /\ decisions = <<>>
  /\ arg = None /\ ret = None /\ ret2 = None
  /\ AppIdle

PipeNext == ProcessSheets \/ BuildIndex \/ MatchRow \/ MatchReturn

SpecPipe == PipeInit /\ [][PipeNext]_vars

(***************************************************************************)
(* Claims on the accessory filter (specification SpecPipe)                 *)
(***************************************************************************)
\* the name contains an accessory keyword, whatever the case of its letters
HasAccessoryKeyword(name) ==
  \E keyword \in ACCESSORY_KEYWORDS :
    \E k \in 1..(Len(name) - Len(keyword) + 1) :
      Lower(SubSeq(name, k, k + Len(keyword) - 1)) = keyword

\* the positions of the cellar sheet rows whose name has an accessory keyword
LdAccessoryRows ==
  {k \in 1..Len(ld_raw) : HasAccessoryKeyword(ld_wine_name(ld_raw[k]))}

\* C8: once the sheets are processed, a cellar row whose name contains an
\* accessory keyword (in any case) has no record and no entry in the missing
\* list, so livredecave_total counts at most the other rows; no reference
\* record has such a name, so that no best candidate has one and the key
\* index holds only keys of the reference records.
C8_AccessoriesExcluded ==
  pc # "process_start" =>
    /\ \A k \in LdAccessoryRows :
         /\ \A i \in 1..Len(livredecave_df) :
              livredecave_df[i].original_row # k + 1
         /\ \A m \in 1..Len(missing_wines) :
              missing_wines[m].original_row # k + 1
    /\ livredecave_total <= Len(ld_raw) - Cardinality(LdAccessoryRows)
    /\ \A j \in 1..Len(googlesheet_df) :
         ~HasAccessoryKeyword(googlesheet_df[j].wine)
    /\ \A i \in 1..Len(decisions) :
         decisions[i].best_match_idx # 0 =>
           ~HasAccessoryKeyword(googlesheet_df[decisions[i].best_match_idx].wine)
    /\ gs_lwin16_set \subseteq
         {googlesheet_df[j].lwin16 : j \in 1..Len(googlesheet_df)}

\* the comparison has returned on a cellar sheet of an accessory (whose key a
\* reference wine carries) and a wine, and a reference sheet of an accessory
\* and a wine: one cellar record was evaluated, against one reference record
C8_Witness ==
  /\ pc = "match_done"
  /\ Len(ld_raw) = 2
  /\ ld_wine_name(ld_raw[1]) = COFFRET
  /\ ld_wine_name(ld_raw[2]) = Petrus
  /\ Len(gs_raw) = 2
  /\ gs_wine_name(gs_raw[1]) = COFFRET
  /\ gs_wine_name(gs_raw[2]) = Margaux
  /\ livredecave_total = 1
  /\ livredecave_df[1].original_row = 3
  /\ Len(googlesheet_df) = 1
  /\ Len(decisions) = 1

(***************************************************************************)
(* Specification SpecKey: the exact key of one sheet row. The three cells  *)
(* of the row go through extract_lwin7, normalize_vintage and              *)
(* normalize_size, and create_lwin16 builds the key from the results.      *)
(***************************************************************************)
LwinCells ==
  {NaN, LwinCell, Lwin1, <<"1","2","3">>, <<"a","b","c">>}

VintageCells ==
  {NaN, <<"2","0","1","0">>, <<"N","V">>,
   <<"1","9","9","9","-","2","0","0","0">>, <<"a","b","c">>}

\* 0.75 and 1.5 (liters), 75, 750 and 1500 without unit, and cells that
\* carry their unit
SizeCells ==
  {NaN, <<"0",".","7","5">>, <<"1",".","5">>, <<"7","5">>, <<"7","5","0">>,
   <<"1","5","0","0">>, <<"7","5","c","l">>, <<"7","5","0","m","l">>,
   <<"1","5","0","0","m","l">>}

\* process_livredecave passes unit 'L', process_googlesheet passes 'cl'
Units == {"L", "cl"}

KeyInit ==
  /\ pc = "key_start"
  /\ arg \in [lwin : LwinCells, vintage : VintageCells, size : SizeCells,
              unit : Units]
  /\ ret = None
  /\ ret2 = None
  /\ EngineIdle
  /\ AppIdle

\* vintage = normalize_vintage(...); size_cl = normalize_size(...);
\* lwin7 = extract_lwin7(...)
KeyNormalize ==
  /\ pc = "key_start"
  /\ ~normalize_vintage_raises(arg.vintage)
  /\ ret' = [lwin7 |-> extract_lwin7(arg.lwin),
             vintage |-> normalize_vintage(arg.vintage),
             size_cl |-> normalize_size(arg.size, arg.unit)]
  /\ pc' = "key_build"
  /\ UNCHANGED <<arg, ret2>>
  /\ UNCHANGED engineVars
  /\ UNCHANGED appVars

\* lwin16 = create_lwin16(lwin7, vintage, size_cl)
KeyBuild ==
  /\ pc = "key_build"
  /\ ret2' = create_lwin16(ret.lwin7, ret.vintage, ret.size_cl)
  /\ pc' = "key_done"
  /\ UNCHANGED <<arg, ret>>
  /\ UNCHANGED engineVars
  /\ UNCHANGED appVars

KeyNext == KeyNormalize \/ KeyBuild

SpecKey == KeyInit /\ [][KeyNext]_vars

\* C9 (as stated): for an absent lwin7 create_lwin16 returns None, and for a
\* defined lwin7, with the vintage and the volume the normalizers return, it
\* returns a string of 16 characters: the 7 of lwin7, 4 of the vintage, 5 of
\* the volume.
C9_KeyHas16Characters ==
  pc = "key_done" =>
    /\ ret.lwin7 = None => ret2 = None
    /\ ret.lwin7 # None =>
         /\ ret2 # None
         /\ Len(ret2) = 16
         /\ SubSeq(ret2, 1, 7) = ret.lwin7
         /\ StrToNat(SubSeq(ret2, 8, 11)) = ret.vintage
         /\ StrToNat(SubSeq(ret2, 12, 16)) = ret.size_cl

(***************************************************************************)
(* Specification SpecProj: compare_files on sheets whose rows hold         *)
(* malformed cells: at most MaxCellar cellar rows and MaxRef reference     *)
(* rows from the rows below; every pair of names has the same score.       *)
(***************************************************************************)
Abc == <<"a","b","c">>

Inf == <<"i","n","f">>

Y2010 == <<"2","0","1","0">>

Y2050 == <<"2","0","5","0">>

\* a well-formed row; a row whose three fields do not parse; a row whose
\* vintage reads as the float infinity; a row named with punctuation only;
\* a row with a year after 2030
ProjLdRows ==
  {ld_sheet_row(Petrus, NaN, Y2010, <<"0",".","7","5">>, NaN),
   ld_sheet_row(Petrus, NaN, Abc, Abc, Abc),
   ld_sheet_row(Petrus, NaN, Inf, <<"0",".","7","5">>, NaN),
   ld_sheet_row(Dashes, NaN, Y2010, <<"0",".","7","5">>, NaN),
   ld_sheet_row(Petrus, NaN, Y2050, <<"0",".","7","5">>, Lwin1)}

ProjGsRows ==
  {gs_sheet_row(PETRUS, Y2010, <<"7","5">>, NaN),
   gs_sheet_row(Margaux, Inf, <<"7","5">>, Lwin1),
   gs_sheet_row(Dashes, Y2010, <<"7","5">>, NaN),
   gs_sheet_row(Margaux, Abc, Abc, Abc)}

ProjPairs ==
  LET ld_names == {normalize_string(ld_wine_name(r)) : r \in ProjLdRows}
      gs_names == {normalize_string(gs_wine_name(r)) : r \in ProjGsRows}
  IN {p \in ld_names \X gs_names : p[1] # <<>> /\ p[2] # <<>> /\ p[1] # p[2]}

ProjInit ==
  /\ pc = "process_start"
  /\ \E n \in 1..MaxCellar : ld_raw \in SheetsOf(ProjLdRows, n)
  /\ \E n \in 1..MaxRef : gs_raw \in SheetsOf(ProjGsRows, n)
  /\ \E s \in Scores : score = [p \in ProjPairs |-> s]
  /\ livredecave_df = <<>> /\ googlesheet_df = <<>>
  /\ gs_lwin16_set = {}
  /\ idx = 0
  /\ missing_wines = <<>>
  /\ decisions = <<>>
  /\ arg = None /\ ret = None /\ ret2 = None
  /\ AppIdle

ProjNext == ProcessSheets \/ BuildIndex \/ MatchRow \/ MatchReturn

SpecProj == ProjInit /\ [][ProjNext]_vars

\* the positions of the rows of a sheet that have a non-empty name without
\* accessory keyword
LdWineRows ==
  {k \in 1..Len(ld_raw) :
     ld_wine_name(ld_raw[k]) # <<>> /\ ~HasAccessoryKeyword(ld_wine_name(ld_raw[k]))}

GsWineRows ==
  {k \in 1..Len(gs_raw) :
     gs_wine_name(gs_raw[k]) # <<>> /\ ~HasAccessoryKeyword(gs_wine_name(gs_raw[k]))}

\* C11 (as stated): once the sheets are processed, every row with a
\* non-empty, non-accessory name has its record, whatever its vintage, volume
\* and identifier cells hold: no such row is dropped.
C11_MalformedFieldKeepsRow ==
  pc # "process_start" =>
    /\ \A k \in LdWineRows :
         \E i \in 1..Len(livredecave_df) : livredecave_df[i].original_row = k + 1
    /\ Len(googlesheet_df) = Cardinality(GsWineRows)

(***************************************************************************)
(* Claims on the best candidate (specification Spec)                       *)
(***************************************************************************)
\* the iterated cellar rows that went through the scan of the reference rows
Scanned ==
  {k \in Iterated : ~KeyInReference(k) /\ livredecave_df[k].wine_normalized # <<>>}

\* C12: the candidate retained for a scanned cellar row is a reference
\* record of maximal score, and the first of them in the order of the
\* reference frame; its score is the score retained.
C12_BestIsFirstMaximum ==
  \A k \in Scanned :
    /\ decisions[k].best_match_idx = BestOf(k)
    /\ BestOf(k) # 0 =>
         /\ decisions[k].best_score = ScoreOf(k, BestOf(k))
         /\ \A j \in 1..Len(googlesheet_df) :
              ScoreOf(k, j) <= decisions[k].best_score
         /\ \A j \in 1..(decisions[k].best_match_idx - 1) :
              ScoreOf(k, j) < decisions[k].best_score

\* the call has returned; two reference records share the maximal score of
\* a scanned row and the first is retained
C12_Witness ==
  /\ pc = "match_done"
  /\ Len(googlesheet_df) = 2
  /\ \E k \in Scanned :
       /\ ScoreOf(k, 1) = ScoreOf(k, 2)
       /\ decisions[k].best_match_idx = 1

(***************************************************************************)
(* Specification SpecVintage: normalize_vintage applied to a missing cell  *)
(* and to every string over VintageAlphabet of length at most              *)
(* MaxVintageLen.                                                          *)
(***************************************************************************)
MaxVintageLen == 4

VintageAlphabet == {"0", "1", "2", "3", "5", "9", "-", ".", " "}

VintageInit ==
  /\ pc = "vintage_call"
  /\ arg \in StringsUpTo(VintageAlphabet, MaxVintageLen) \cup {NaN}
  /\ ret = None
  /\ ret2 = None
  /\ EngineIdle
  /\ AppIdle

\* ret = what normalize_vintage(arg) does: the value returned, or the
\* exception raised
VintageApply ==
  /\ pc = "vintage_call"
  /\ ret' = VintageCall(arg)
  /\ pc' = "vintage_done"
  /\ UNCHANGED <<arg, ret2>>
  /\ UNCHANGED engineVars
  /\ UNCHANGED appVars

VintageNext == VintageApply

SpecVintage == VintageInit /\ [][VintageNext]_vars

\* C13 (as stated): every value normalize_vintage returns is the sentinel
\* 1000 or a year from 1900 to 2030.
C13_VintageWithinBound ==
  (pc = "vintage_done" /\ ret.outcome = "return") =>
    \/ ret.value = 1000
    \/ (1900 <= ret.value /\ ret.value <= 2030)

(***************************************************************************)
(* Specification SpecSize: normalize_size applied with unit 'cl' (the call *)
(* of process_googlesheet) to a missing cell and to every string over      *)
(* SizeAlphabet of length at most MaxSizeLen.                              *)
(***************************************************************************)
MaxSizeLen == 5

SizeAlphabet == {"0", "5", "7", ".", "c", "l", "m"}

SizeInit ==
  /\ pc = "size_call"
  /\ arg \in StringsUpTo(SizeAlphabet, MaxSizeLen) \cup {NaN}
  /\ ret = None
  /\ ret2 = None
  /\ EngineIdle
  /\ AppIdle

\* ret = normalize_size(arg, unit='cl')
SizeApply ==
  /\ pc = "size_call"
  /\ ret' = normalize_size(arg, "cl")
  /\ pc' = "size_done"
  /\ UNCHANGED <<arg, ret2>>
  /\ UNCHANGED engineVars
  /\ UNCHANGED appVars

SizeNext == SizeApply

SpecSize == SizeInit /\ [][SizeNext]_vars

\* the first number written in a string that holds a digit: its integer
\* part, and its fraction digits when a point and a digit follow
NumberIn(s) ==
  LET p == FirstDigitPos(s)
      ilen == DigitRunLen(s, p)
      frac == p + ilen + 1 <= Len(s) /\ s[p + ilen] = "." /\ s[p + ilen + 1] \in Digits
      flen == IF frac THEN DigitRunLen(s, p + ilen + 1) ELSE 0
  IN [ip |-> StrToNat(SubSeq(s, p, p + ilen - 1)),
      fp |-> StrToNat(SubSeq(s, p + ilen + 1, p + ilen + flen)),
      flen |-> flen]

\* C14 (as stated): with unit 'cl', a value that contains "ml" gives its
\* number divided by 10, a value marked as liters (it contains "l") gives its
\* number times 100, and a value without unit marker gives its number.
C14_UnitWrittenInValue ==
  (pc = "size_done" /\ arg # NaN /\ FirstDigitPos(arg) # 0) =>
    IF Contains(<<"m","l">>, arg)
    THEN ret = NumberIn(arg).ip \div 10
    ELSE IF Contains(<<"l">>, arg)
    THEN ret = FloatMul100Trunc(NumberIn(arg).ip, NumberIn(arg).fp,
                                NumberIn(arg).flen)
    ELSE ret = NumberIn(arg).ip

(***************************************************************************)
(* Specification SpecLwin: extract_lwin7 (wine_comparison_backend.py)      *)
(* applied to a missing cell, to cells with the LWIN prefix and to every   *)
(* string over LwinAlphabet of length at most MaxLwinLen.                  *)
(***************************************************************************)
MaxLwinLen == 8

LwinAlphabet == {"1", "2", "-"}

LwinInit ==
  /\ pc = "lwin_call"
  /\ arg \in StringsUpTo(LwinAlphabet, MaxLwinLen)
             \cup {NaN, LwinCell, <<"l","w","i","n","1","2">>}
  /\ ret = None
  /\ ret2 = None
  /\ EngineIdle
  /\ AppIdle

\* ret = extract_lwin7(arg)
LwinApply ==
  /\ pc = "lwin_call"
  /\ ret' = extract_lwin7(arg)
  /\ pc' = "lwin_done"
  /\ UNCHANGED <<arg, ret2>>
  /\ UNCHANGED engineVars
  /\ UNCHANGED appVars

LwinNext == LwinApply

SpecLwin == LwinInit /\ [][LwinNext]_vars

\* the identifier rule of the specification on a cell
IdentifierRule(cell) ==
  IF cell = NaN \/ cell = <<>> THEN None
  ELSE LET s == DropLwinPrefix(Strip(cell))
           p == FirstDigitPos(s)
           digits == OnlyDigits(s)
       IN IF p # 0 /\ DigitRunLen(s, p) >= 7 THEN SubSeq(s, p, p + 6)
          ELSE IF 1 <= Len(digits) /\ Len(digits) <= 6 THEN zfill(digits, 7)
          ELSE None

\* C15 (as stated): extract_lwin7 returns the first 7 digits of the first
\* run of digits when that run has at least 7, the digits padded to 7 when
\* the cell holds 1 to 6 digits in total, and None in every other case; the
\* result is None or a string of 7 digits.
C15_IdentifierRule ==
  pc = "lwin_done" =>
    /\ ret = IdentifierRule(arg)
    /\ ret # None => (Len(ret) = 7 /\ OnlyDigits(ret) = ret)

(***************************************************************************)
(* Claims on the records of the projection (specification SpecProj)        *)
(***************************************************************************)
\* C16 (as stated): once the sheets are processed no record has an empty
\* normalized name, and no entry of the missing list comes from a record
\* with an empty normalized name.
C16_NoEmptyNormalizedName ==
  pc # "process_start" =>
    /\ \A i \in 1..Len(livredecave_df) : livredecave_df[i].wine_normalized # <<>>
    /\ \A j \in 1..Len(googlesheet_df) : googlesheet_df[j].wine_normalized # <<>>
    /\ \A m \in 1..Len(missing_wines) : normalize_string(missing_wines[m].wine) # <<>>

(***************************************************************************)
(* Specification SpecKeyPair: the exact keys of two sheet rows, each built *)
(* by create_lwin16 from what the normalizers return for the row's cells.  *)
(***************************************************************************)
PairLwinCells == {NaN, Lwin1, LwinCell, <<"1","2","3">>}

PairVintageCells ==
  {NaN, Y2010, <<"2","0","1","1">>, <<"1","9","9","9","-","2","0","0","0">>}

PairSizeCells ==
  {<<"0",".","7","5">>, <<"1",".","5">>, <<"7","5">>, <<"1","5","0">>,
   <<"1","5","0","0">>}

PairCells ==
  [lwin : PairLwinCells, vintage : PairVintageCells, size : PairSizeCells,
   unit : Units]

\* the three normalized fields of a row
key_fields(cells) ==
  [lwin7 |-> extract_lwin7(cells.lwin),
   vintage |-> normalize_vintage(cells.vintage),
   size_cl |-> normalize_size(cells.size, cells.unit)]

PairInit ==
  /\ pc = "pair_start"
  /\ arg \in PairCells \X PairCells
  /\ ret = None
  /\ ret2 = None
  /\ EngineIdle
  /\ AppIdle

\* the fields of both rows are normalized
PairNormalize ==
  /\ pc = "pair_start"
  /\ ret' = <<key_fields(arg[1]), key_fields(arg[2])>>
  /\ pc' = "pair_build"
  /\ UNCHANGED <<arg, ret2>>
  /\ UNCHANGED engineVars
  /\ UNCHANGED appVars

\* lwin16 = create_lwin16(lwin7, vintage, size_cl), for both rows
PairBuild ==
  /\ pc = "pair_build"
  /\ ret2' = <<create_lwin16(ret[1].lwin7, ret[1].vintage, ret[1].size_cl),
               create_lwin16(ret[2].lwin7, ret[2].vintage, ret[2].size_cl)>>
  /\ pc' = "pair_done"
  /\ UNCHANGED <<arg, ret>>
  /\ UNCHANGED engineVars
  /\ UNCHANGED appVars

PairNext == PairNormalize \/ PairBuild

SpecKeyPair == PairInit /\ [][PairNext]_vars

\* C17: two rows with defined lwin7 whose normalized fields differ in at
\* least one component have different keys: equal keys imply equal lwin7,
\* equal vintage and equal volume.
C17_KeyInjective ==
  (pc = "pair_done" /\ ret[1].lwin7 # None /\ ret[2].lwin7 # None) =>
    (ret2[1] = ret2[2] => ret[1] = ret[2])

\* two keys were built for rows that differ in the volume alone, one of 5
\* digits and one of 6, and the keys differ
C17_Witness ==
  /\ pc = "pair_done"
  /\ ret[1].lwin7 = Lwin1 /\ ret[2].lwin7 = Lwin1
  /\ ret[1].vintage = 2010 /\ ret[2].vintage = 2010
  /\ ret[1].size_cl = 15000 /\ ret[2].size_cl = 150000
  /\ ret2[1] # ret2[2]
  /\ Len(ret2[1]) = 16 /\ Len(ret2[2]) = 17

(***************************************************************************)
(* Claims on reference records of the same name (specification Spec)       *)
(***************************************************************************)
\* the reference frame holds a record with the normalized name, the vintage
\* and the volume of cellar row k
HasTwin(k) ==
  \E j \in 1..Len(googlesheet_df) :
    /\ googlesheet_df[j].wine_normalized = livredecave_df[k].wine_normalized
    /\ googlesheet_df[j].vintage = livredecave_df[k].vintage
    /\ googlesheet_df[j].contenance_cl = livredecave_df[k].contenance_cl

\* C18 (as stated): an iterated cellar record without lwin7 and with a
\* normalized name, for which the reference frame holds a record of the same
\* normalized name, vintage and volume, is not reported missing.
C18_TwinIsFound ==
  \A k \in Iterated :
    (/\ livredecave_df[k].lwin7 = None
     /\ livredecave_df[k].wine_normalized # <<>>
     /\ HasTwin(k)) => ~InMissing(k)

(***************************************************************************)
(* Claims on empty frames (specification Spec)                             *)
(***************************************************************************)
\* C19 (as stated): fuzzy_match_wines never raises; when it has returned on
\* an empty reference frame every cellar record is in the missing list, and
\* when it has returned on an empty cellar frame the list is empty.
C19_TotalOnEmptyFrames ==
  /\ pc # "match_raised"
  /\ (pc = "match_done" /\ googlesheet_df = <<>>) =>
       \A k \in 1..Len(livredecave_df) : InMissing(k)
  /\ (pc = "match_done" /\ livredecave_df = <<>>) => missing_wines = <<>>

(***************************************************************************)
(* app.py: the requests of several clients on one server. A /compare       *)
(* request saves its two uploads under fixed names, reads them back and    *)
(* writes the result file under a fixed name; /download/excel sends that   *)
(* file. A sheet is named by the client that uploaded it, and a result by  *)
(* the two sheets it was computed from.                                    *)
(***************************************************************************)
Clients == {"A", "B"}

\* a file that does not exist, a frame not yet read
NoFile == "none"

NoResult == [google |-> NoFile, cave |-> NoFile]

\* a step of a request leaves the variables of the other models alone
ServerFrame ==
  /\ UNCHANGED <<pc, google_xlsx, cave_xlsx, google_df, cave_df, cave_idx,
                 app_missing_wines, app_decisions>>
  /\ UNCHANGED pureVars
  /\ UNCHANGED engineVars

\* google_file.save(google_path): uploads/google_sheet.xlsx
SaveGoogle(c) ==
  /\ requests[c].pc = "save_google"
  /\ files' = [files EXCEPT !.google_sheet = c]
  /\ requests' = [requests EXCEPT ![c].pc = "save_cave"]
  /\ ServerFrame

\* cave_file.save(cave_path): uploads/livre_cave.xlsx
SaveCave(c) ==
  /\ requests[c].pc = "save_cave"
  /\ files' = [files EXCEPT !.livre_cave = c]
  /\ requests' = [requests EXCEPT ![c].pc = "read_google"]
  /\ ServerFrame

\* google_df = pd.read_excel(google_path)
ReadGoogle(c) ==
  /\ requests[c].pc = "read_google"
  /\ requests' = [requests EXCEPT ![c].pc = "read_cave",
                                  ![c].google_df = files.google_sheet]
  /\ UNCHANGED files
  /\ ServerFrame

\* cave_df = pd.read_excel(cave_path)
ReadCave(c) ==
  /\ requests[c].pc = "read_cave"
  /\ requests' = [requests EXCEPT ![c].pc = "write_result",
                                  ![c].cave_df = files.livre_cave]
  /\ UNCHANGED files
  /\ ServerFrame

\* the missing wines computed from the two frames are written to
\* downloads/vins_manquants.xlsx, and the request is answered
WriteResult(c) ==
  /\ requests[c].pc = "write_result"
  /\ files' = [files EXCEPT !.vins_manquants =
                 [google |-> requests[c].google_df, cave |-> requests[c].cave_df]]
  /\ requests' = [requests EXCEPT ![c].pc = "compared"]
  /\ ServerFrame

\* download_file: send_from_directory(DOWNLOAD_FOLDER, 'vins_manquants.xlsx')
DownloadFile(c) ==
  /\ requests[c].pc = "compared"
  /\ requests' = [requests EXCEPT ![c].pc = "downloaded",
                                  ![c].downloaded = files.vins_manquants]
  /\ UNCHANGED files
  /\ ServerFrame

(***************************************************************************)
(* Specification SpecServer: every interleaving of the steps of one        *)
(* /compare request followed by one /download/excel request per client.    *)
(***************************************************************************)
ServerInit ==
  /\ pc = "serving"
  /\ files = [google_sheet |-> NoFile, livre_cave |-> NoFile,
              vins_manquants |-> NoResult]
  /\ requests = [c \in Clients |->
                   [pc |-> "save_google", google_df |-> NoFile,
                    cave_df |-> NoFile, downloaded |-> NoResult]]
  /\ google_xlsx = <<>> /\ cave_xlsx = <<>>
  /\ google_df = <<>> /\ cave_df = <<>>
  /\ cave_idx = 0 /\ app_missing_wines = <<>> /\ app_decisions = <<>>
  /\ arg = None /\ ret = None /\ ret2 = None
  /\ EngineIdle

ServerNext ==
  \E c \in Clients :
    \/ SaveGoogle(c) \/ SaveCave(c) \/ ReadGoogle(c) \/ ReadCave(c)
    \/ WriteResult(c) \/ DownloadFile(c)

SpecServer == ServerInit /\ [][ServerNext]_vars

\* C20 (as stated): the sheets a request reads are the sheets its client
\* uploaded, and the result a client downloads after its /compare was
\* answered is the result computed from that client's two sheets.
C20_RequestsIsolated ==
  \A c \in Clients :
    /\ requests[c].google_df \in {NoFile, c}
    /\ requests[c].cave_df \in {NoFile, c}
    /\ requests[c].downloaded \in {NoResult, [google |-> c, cave |-> c]}

====
